---- MODULE Spec2Model ----
(***************************************************************************)
(* Career Readiness Score wizard (frontend).                               *)
(*                                                                         *)
(* The model follows the React components of the repository:               *)
(*   App.jsx                 the Wizard Controller (step cursor, IntakeState,*)
(*                           stored report, loading flag, calculateScore)  *)
(*   SkillsForm.jsx          addSkill / removeSkill / Clear All            *)
(*   CertificationsForm.jsx  addCert / removeCert                          *)
(*   ProjectsForm            addProject / removeProject                    *)
(*   InternshipsForm         addInternship / removeInternship              *)
(*   ResumeUpload            the resume textarea                           *)
(*                                                                         *)
(* One action is one event handler, or one resumption of an async function *)
(* after an await.  React flushes the state updates of a discrete event    *)
(* before the next event is dispatched, so every handler reads the state   *)
(* of the latest render and an action is atomic.                           *)
(*                                                                         *)
(* Text is modelled as a sequence of one-character strings, so that        *)
(* String.prototype.trim is computed and not assumed.                      *)
(***************************************************************************)
EXTENDS Integers, Sequences, FiniteSets, TLC

VARIABLES
    step,        \* App: const [step, setStep] = useState(0)
    data,        \* App: const [data, setData] = useState({...})   (IntakeState)
    results,     \* App: const [results, setResults] = useState(null)
    loading,     \* App: const [loading, setLoading] = useState(false)
    frames,      \* the calculateScore invocations suspended at an await
    form,        \* local state of the component mounted by renderStep()
    alerts,      \* number of alert() dialogs shown so far
    fetchCount,  \* number of POST /api/score/calculate calls issued so far
    certScans,   \* the CertificationsForm onDrop invocations suspended at an await
    resumeScans, \* the ResumeUpload onDrop invocations suspended at an await, or
                 \* waiting for their FileReader
    scanCount,   \* number of files handed to an onDrop so far
    lastOp       \* the handler (and its argument) that ran last

vars == <<step, data, results, loading, frames, form, alerts, fetchCount,
          certScans, resumeScans, scanCount, lastOp>>

-----------------------------------------------------------------------------
(* Bounds of the model *)

\* scoring requests issued in one session
MaxCalls == 2

\* certifications, projects and internships held by the intake lists
MaxCerts == 3

MaxProjects == 2

MaxInternships == 2

\* files dropped on the certificate dropzone in one session
MaxScans == 2

\* files dropped on the resume dropzone in one session
MaxUploads == 2

-----------------------------------------------------------------------------
(* Values *)

\* JavaScript null
Null == [type |-> "null"]

\* index of the last entry of STEPS (Results)
LastStep == 5

\* index of the Resume entry of STEPS, the step that renders the submit button
ResumeStep == 4

\* useState(2024) of CertificationsForm, and its reset in addCert
DefaultYear == 2024

\* durationMonths of the initial InternshipsForm draft
DefaultDuration == 3

\* STEPS of App.jsx: the component renderStep() mounts for each step id
STEPS == [i \in 0..LastStep |->
            CASE i = 0 -> "SkillsForm"
              [] i = 1 -> "CertificationsForm"
              [] i = 2 -> "ProjectsForm"
              [] i = 3 -> "InternshipsForm"
              [] i = 4 -> "ResumeUpload"
              [] OTHER -> "ResultsDashboard"]

-----------------------------------------------------------------------------
(* Text *)

\* the characters String.prototype.trim removes (white space)
IsSpace(c) == c \in {" ", "\t"}

RECURSIVE TrimStart(_)
TrimStart(s) ==
    IF s = <<>> THEN <<>>
    ELSE IF IsSpace(Head(s)) THEN TrimStart(Tail(s)) ELSE s

RECURSIVE TrimEnd(_)
TrimEnd(s) ==
    IF s = <<>> THEN <<>>
    ELSE IF IsSpace(s[Len(s)]) THEN TrimEnd(SubSeq(s, 1, Len(s) - 1)) ELSE s

\* String.prototype.trim
Trim(s) == TrimEnd(TrimStart(s))

\* JavaScript  a || b  on strings: the empty string is falsy
OrStr(a, b) == IF a = <<>> THEN b ELSE a

\* JavaScript  a || b  on numbers: 0 is falsy
OrNum(a, b) == IF a = 0 THEN b ELSE a

\* JavaScript  a || b  on booleans
OrBool(a, b) == IF a THEN a ELSE b

\* JavaScript  a || b  on arrays: every array, the empty one included, is truthy
OrArr(a, b) == a

\* r.f || d on a string field; r.f is undefined, and falsy, when f is absent
FieldOrStr(r, f, d) == IF f \in DOMAIN r THEN OrStr(r[f], d) ELSE d

\* mutant: an absent number field is sent as 0
FieldOrNumZero(r, f, d) == IF f \in DOMAIN r THEN OrNum(r[f], d) ELSE 0

\* r.f || d on a number field
FieldOrNum(r, f, d) == IF f \in DOMAIN r THEN OrNum(r[f], d) ELSE d

\* r.f || d on a boolean field
FieldOrBool(r, f, d) == IF f \in DOMAIN r THEN OrBool(r[f], d) ELSE d

\* r.f || d on an array field
FieldOrArr(r, f, d) == IF f \in DOMAIN r THEN OrArr(r[f], d) ELSE d

\* Math.max
Max(a, b) == IF a >= b THEN a ELSE b

\* Array.prototype.includes
Includes(s, x) == \E k \in 1..Len(s) : s[k] = x

\* Array.prototype.filter((_, i) => i !== idx), visiting the entries from the
\* k-th on (i is the 0-based index of the entry)
RECURSIVE FilterIndexFrom(_, _, _)
FilterIndexFrom(s, idx, k) ==
    IF k > Len(s) THEN <<>>
    ELSE IF (k - 1) # idx
         THEN <<s[k]>> \o FilterIndexFrom(s, idx, k + 1)
         ELSE FilterIndexFrom(s, idx, k + 1)

\* Array.prototype.filter((_, i) => i !== idx)
FilterIndex(s, idx) == FilterIndexFrom(s, idx, 1)

\* Array.prototype.filter(x => x !== v)
RECURSIVE FilterValue(_, _)
FilterValue(s, v) ==
    IF s = <<>> THEN <<>>
    ELSE IF Head(s) # v
         THEN <<Head(s)>> \o FilterValue(Tail(s), v)
         ELSE FilterValue(Tail(s), v)

-----------------------------------------------------------------------------
(* Inputs of the environment *)

\* skill names offered by the catalog of GET /api/skills
SkillCatalog == {"Python", "SQL"}

\* what the user can type into the resume textarea
ResumeInputs == {<<>>, <<"c", "v">>}

\* score reports the scoring service returns
ReportA == [final |-> [final_score |-> 42, overall_grade |-> "D"],
            components |-> "components-A",
            suggestions |-> "suggestions-A"]

ReportB == [final |-> [final_score |-> 81, overall_grade |-> "A"],
            components |-> "components-B"]

\* JSON body of an HTTP error answer (FastAPI: {"detail": ...})
ErrorBody == [detail |-> "Unprocessable Entity"]

\* a body that is not JSON (an HTML or plain-text error page)
NotJson == [type |-> "text"]

\* the Response objects fetch() can resolve to: fetch resolves for every
\* HTTP status and rejects only on a transport error
Responses == { [status |-> 200, body |-> ReportA],
               [status |-> 200, body |-> ReportB],
               [status |-> 422, body |-> ErrorBody],
               [status |-> 500, body |-> NotJson] }

\* res of a frame that has not been answered yet
NoResponse == [status |-> 0, body |-> Null]

\* Response.ok
Ok(res) == res.status >= 200 /\ res.status <= 299

-----------------------------------------------------------------------------
(* App.jsx *)

\* renderStep: the component mounted for a step; default: return null
renderStep(s) == IF s \in DOMAIN STEPS THEN STEPS[s] ELSE "null"

\* useState initial value of data
InitData == [skills |-> <<>>, certifications |-> <<>>, projects |-> <<>>,
             internships |-> <<>>, resumeText |-> <<>>, resumeFile |-> Null]

\* local state of a freshly mounted step component (its useState initial values)
InitForm(s) ==
    CASE s = 1 -> [component |-> renderStep(s), name |-> <<>>, issuer |-> <<>>,
                   year |-> DefaultYear, scanning |-> FALSE,
                   scanResult |-> Null]
      [] s = 2 -> [component |-> renderStep(s),
                   form |-> [title |-> <<>>, description |-> <<>>,
                             techStack |-> <<>>, githubUrl |-> <<>>]]
      [] s = 3 -> [component |-> renderStep(s),
                   form |-> [company |-> <<>>, role |-> <<>>,
                             durationMonths |-> DefaultDuration,
                             achievements |-> <<>>, hasCertificate |-> FALSE]]
      [] s = 4 -> [component |-> renderStep(s), uploading |-> FALSE,
                   fileName |-> <<>>, preview |-> Null]
      [] OTHER -> [component |-> renderStep(s)]

\* mutant: the previous state is not spread into the new one
updateDataAlone(prev, key, value) == [InitData EXCEPT ![key] = value]

\* updateData: setData(prev => ({ ...prev, [key]: value }))
updateData(prev, key, value) == [prev EXCEPT ![key] = value]

\* the onDrop invocations of a component that has been unmounted: their
\* setState calls no longer change any state
Unmounted(scans) == [k \in 1..Len(scans) |-> [scans[k] EXCEPT !.mounted = FALSE]]

\* setStep(s): <main key={step}> remounts the step component when the step changes
setStep(s) ==
    /\ step' = s
    /\ form' = IF s = step THEN form ELSE InitForm(s)
    /\ certScans' = IF s = step THEN certScans ELSE Unmounted(certScans)
    /\ resumeScans' = IF s = step THEN resumeScans ELSE Unmounted(resumeScans)

\* the payload calculateScore builds from data
Payload(d) ==
    [skills |-> d.skills,
     certifications |->
        [k \in 1..Len(d.certifications) |->
            LET c == d.certifications[k] IN
            [name |-> c.name, issuer |-> FieldOrStr(c, "issuer", <<>>),
             year |-> FieldOrNum(c, "year", 2024)]],
     projects |->
        [k \in 1..Len(d.projects) |->
            LET p == d.projects[k] IN
            [title |-> p.title,
             description |-> FieldOrStr(p, "description", <<>>),
             tech_stack |-> FieldOrArr(p, "techStack", <<>>),
             github_url |-> FieldOrStr(p, "githubUrl", <<>>)]],
     internships |->
        [k \in 1..Len(d.internships) |->
            LET i == d.internships[k] IN
            [company |-> i.company, role |-> FieldOrStr(i, "role", <<>>),
             duration_months |-> FieldOrNum(i, "durationMonths", 1),
             achievements |-> FieldOrStr(i, "achievements", <<>>),
             has_certificate |-> FieldOrBool(i, "hasCertificate", FALSE)]],
     resume_text |-> OrStr(d.resumeText, <<>>)]

\* the sequence s without its k-th entry
RemoveAt(s, k) == SubSeq(s, 1, k - 1) \o SubSeq(s, k + 1, Len(s))

Op(name, arg) == [op |-> name, arg |-> arg]

\* mutant: the Next button rendered on every step
NextRenderedAlways == TRUE

\* the Next button is rendered while step < 5 and step < 4
NextRendered == step < LastStep /\ step < ResumeStep

\* Next: onClick={() => setStep(step + 1)}
Advance ==
    /\ NextRendered
    /\ setStep(step + 1)
    /\ lastOp' = Op("advance", 0)
    /\ UNCHANGED <<data, results, loading, frames, alerts, fetchCount, scanCount>>

\* Previous: rendered while step < 5, disabled at step 0;
\* onClick={() => setStep(Math.max(0, step - 1))}
Retreat ==
    /\ step < LastStep
    /\ ~(step = 0)
    /\ setStep(Max(0, step - 1))
    /\ lastOp' = Op("retreat", 0)
    /\ UNCHANGED <<data, results, loading, frames, alerts, fetchCount, scanCount>>

\* mutant: the stepper lets the user click one step ahead
JumpAllowedOneAhead(i) == i <= step + 1

\* the stepper's guard: i <= step || isDone, with isDone = i < step
JumpAllowed(i) == i <= step \/ i < step

\* stepper button i: onClick={() => { if (i <= step || isDone) setStep(i); }}
Jump(i) ==
    /\ IF JumpAllowed(i) THEN setStep(i)
       ELSE UNCHANGED <<step, form, certScans, resumeScans>>
    /\ lastOp' = Op("jump", i)
    /\ UNCHANGED <<data, results, loading, frames, alerts, fetchCount, scanCount>>

\* mutant: the submit button rendered on every form step
SubmitRenderedEveryStep == step < LastStep

\* the submit button is rendered while step < 5 and not step < 4
SubmitRendered == step < LastStep /\ ~(step < ResumeStep)

\* mutant: the submit button without disabled={loading}
SubmitEnabledWhileLoading == SubmitRendered

\* the submit button: disabled={loading}
SubmitEnabled == SubmitRendered /\ ~loading

\* calculateScore up to its first await: setLoading(true), build the payload,
\* call fetch
Submit ==
    /\ SubmitEnabled
    /\ fetchCount < MaxCalls
    /\ loading' = TRUE
    /\ frames' = Append(frames, [pc |-> "fetch", payload |-> Payload(data),
                                 res |-> NoResponse])
    /\ fetchCount' = fetchCount + 1
    /\ lastOp' = Op("submit", 0)
    /\ UNCHANGED <<certScans, resumeScans, scanCount>>
    /\ UNCHANGED <<step, data, results, form, alerts>>

\* await fetch(...) resolves with a Response; the function suspends again at
\* await res.json()
FetchResolve(k, r) ==
    /\ k \in 1..Len(frames)
    /\ frames[k].pc = "fetch"
    /\ frames' = [frames EXCEPT ![k] = [@ EXCEPT !.pc = "json", !.res = r]]
    /\ lastOp' = Op("fetchResolve", 0)
    /\ UNCHANGED <<certScans, resumeScans, scanCount>>
    /\ UNCHANGED <<step, data, results, loading, form, alerts, fetchCount>>

\* the catch block and the statement after it: alert(...); setLoading(false)
Catch(k) ==
    /\ alerts' = alerts + 1
    /\ loading' = FALSE
    /\ frames' = RemoveAt(frames, k)
    /\ UNCHANGED <<step, data, results, form, fetchCount, scanCount, certScans, resumeScans>>

\* await fetch(...) rejects (transport error)
FetchReject(k) ==
    /\ k \in 1..Len(frames)
    /\ frames[k].pc = "fetch"
    /\ Catch(k)
    /\ lastOp' = Op("fetchReject", 0)

\* mutant: the response merged into the stored report,
\* setResults(prev => ({ ...prev, ...result }))
MergedReport(prev, result) ==
    IF prev = Null THEN result
    ELSE [f \in DOMAIN prev \cup DOMAIN result |->
            IF f \in DOMAIN result THEN result[f] ELSE prev[f]]

\* what setResults(result) stores
StoredReport(prev, result) == result

\* await res.json() resolves: setResults(result); setStep(5); setLoading(false)
JsonResolve(k) ==
    /\ k \in 1..Len(frames)
    /\ frames[k].pc = "json"
    /\ frames[k].res.body # NotJson
    /\ results' = StoredReport(results, frames[k].res.body)
    /\ setStep(5)
    /\ loading' = FALSE
    /\ frames' = RemoveAt(frames, k)
    /\ lastOp' = Op("jsonResolve", 0)
    /\ UNCHANGED <<data, alerts, fetchCount, scanCount>>

\* await res.json() rejects: the body is not JSON
JsonReject(k) ==
    /\ k \in 1..Len(frames)
    /\ frames[k].pc = "json"
    /\ frames[k].res.body = NotJson
    /\ Catch(k)
    /\ lastOp' = Op("jsonReject", 0)

-----------------------------------------------------------------------------
(* SkillsForm.jsx *)

\* mutant: addSkill without the includes test
addSkillUnchecked(skills, skill) == Append(skills, skill)

\* addSkill's result: if (!skills.includes(skill)) onChange([...skills, skill])
addSkill(skills, skill) ==
    IF ~Includes(skills, skill) THEN Append(skills, skill) ELSE skills

\* removeSkill's result: skills.filter(s => s !== skill)
removeSkill(skills, skill) == FilterValue(skills, skill)

\* a click on a catalog button.  The handler is modelled for every catalog
\* skill: the render offers only the skills not yet selected, and for a
\* selected one the handler changes nothing.
AddSkill(skill) ==
    /\ step = 0
    /\ data' = updateData(data, "skills", addSkill(data.skills, skill))
    /\ lastOp' = Op("addSkill", skill)
    /\ UNCHANGED <<certScans, resumeScans, scanCount>>
    /\ UNCHANGED <<step, results, loading, frames, form, alerts, fetchCount>>

\* the x button of a selected skill's tag
RemoveSkill(skill) ==
    /\ step = 0
    /\ Includes(data.skills, skill)
    /\ data' = updateData(data, "skills", removeSkill(data.skills, skill))
    /\ lastOp' = Op("removeSkill", 0)
    /\ UNCHANGED <<certScans, resumeScans, scanCount>>
    /\ UNCHANGED <<step, results, loading, frames, form, alerts, fetchCount>>

\* Clear All: rendered while skills.length > 0; onClick={() => onChange([])}
ClearAll ==
    /\ step = 0
    /\ Len(data.skills) > 0
    /\ data' = updateData(data, "skills", <<>>)
    /\ lastOp' = Op("clearAll", 0)
    /\ UNCHANGED <<certScans, resumeScans, scanCount>>
    /\ UNCHANGED <<step, results, loading, frames, form, alerts, fetchCount>>

-----------------------------------------------------------------------------
(* ResumeUpload: the textarea *)

\* textarea onChange={e => onChange(e.target.value)}
PasteResume(text) ==
    /\ step = ResumeStep
    /\ data' = updateData(data, "resumeText", text)
    /\ lastOp' = Op("pasteResume", 0)
    /\ UNCHANGED <<certScans, resumeScans, scanCount>>
    /\ UNCHANGED <<step, results, loading, frames, form, alerts, fetchCount>>

-----------------------------------------------------------------------------
(* CertificationsForm.jsx *)

\* what the user can type into the name input
NameInputs == {<<" ", "\t">>, <<" ", "a", " ">>}

\* what the user can type into the issuer input
IssuerInputs == {<<"x", " ">>}

\* input value={name} onChange={e => setName(e.target.value)}
SetName(text) ==
    /\ step = 1
    /\ form' = [form EXCEPT !.name = text]
    /\ lastOp' = Op("setName", 0)
    /\ UNCHANGED <<certScans, resumeScans, scanCount>>
    /\ UNCHANGED <<step, data, results, loading, frames, alerts, fetchCount>>

\* input value={issuer} onChange={e => setIssuer(e.target.value)}
SetIssuer(text) ==
    /\ step = 1
    /\ form' = [form EXCEPT !.issuer = text]
    /\ lastOp' = Op("setIssuer", 0)
    /\ UNCHANGED <<certScans, resumeScans, scanCount>>
    /\ UNCHANGED <<step, data, results, loading, frames, alerts, fetchCount>>

\* mutant: the guard of addCert without trim()
CertRejectedUntrimmed(name) == name = <<>>

\* the guard of addCert: if (!name.trim()) return
CertRejected(name) == Trim(name) = <<>>

\* addCert
AddCert ==
    /\ step = 1
    /\ Len(data.certifications) < MaxCerts
    /\ IF CertRejected(form.name)
       THEN UNCHANGED <<data, form>>
       ELSE /\ data' = updateData(data, "certifications",
                          Append(data.certifications,
                                 [name |-> Trim(form.name),
                                  issuer |-> Trim(form.issuer),
                                  year |-> form.year]))
            /\ form' = [form EXCEPT !.name = <<>>, !.issuer = <<>>,
                                    !.year = DefaultYear]
    /\ lastOp' = Op("addCert", 0)
    /\ UNCHANGED <<certScans, resumeScans, scanCount>>
    /\ UNCHANGED <<step, results, loading, frames, alerts, fetchCount>>

\* mutant: removeCert filtering by value, certs.filter(c => c !== certs[idx])
removeCertByValue(certs, idx) == FilterValue(certs, certs[idx + 1])

\* removeCert's result: certs.filter((_, i) => i !== idx)
removeCert(certs, idx) == FilterIndex(certs, idx)

\* the X button of the idx-th listed certification
RemoveCert(idx) ==
    /\ step = 1
    /\ idx \in 0..(Len(data.certifications) - 1)
    /\ data' = updateData(data, "certifications",
                          removeCert(data.certifications, idx))
    /\ lastOp' = Op("removeCert", idx)
    /\ UNCHANGED <<certScans, resumeScans, scanCount>>
    /\ UNCHANGED <<step, results, loading, frames, form, alerts, fetchCount>>

-----------------------------------------------------------------------------
(* CertificationsForm.jsx: the certificate dropzone *)

\* bodies POST /api/score/certifications/scan answers with:
\* {identified, cert_name?, match?: {tier, tier_label}}
CertMatched == [identified |-> TRUE, cert_name |-> <<"A", "W", "S">>,
                match |-> [tier |-> "gold", tier_label |-> <<"G", "o", "l", "d">>]]

CertUnranked == [identified |-> TRUE, cert_name |-> <<"C", "K", "A">>]

CertUnknown == [identified |-> FALSE]

CertNameless == [identified |-> TRUE]

\* the JSON bodies res.json() of a scan can resolve to
ScanBodies == {CertMatched, CertUnranked, CertUnknown, CertNameless}

\* the scanResult of the catch block
ScanFailed == [error |-> "Failed to scan certificate file."]

\* truthiness of result.identified (undefined when the field is absent)
Identified(result) == "identified" \in DOMAIN result /\ result.identified

\* result.cert_name, the empty string standing for undefined
CertName(result) ==
    IF "cert_name" \in DOMAIN result THEN result.cert_name ELSE <<>>

\* mutant: the scan's name is not tested
PositiveScanUnnamed(result) == Identified(result)

\* the test of onDrop: result.identified && result.cert_name
PositiveScan(result) == Identified(result) /\ CertName(result) # <<>>

\* result.match?.tier_label || ''
TierLabel(result) ==
    IF "match" \in DOMAIN result /\ "tier_label" \in DOMAIN result.match
    THEN OrStr(result.match.tier_label, <<>>)
    ELSE <<>>

\* mutant: the tier label is dropped from the record
ScanRecordBlankIssuer(result) ==
    [name |-> CertName(result), issuer |-> <<>>, year |-> 2024]

\* the record onDrop builds: { name: certName, issuer: tierLabel, year: 2024 }
ScanRecord(result) ==
    [name |-> CertName(result), issuer |-> TierLabel(result), year |-> 2024]

\* the dropzone's onDrop, up to the first await of its loop: setScanning(true),
\* setScanResult(null), fetch.  useDropzone gets no disabled option, so a drop
\* is accepted while a scan is running.
DropCerts(n) ==
    /\ step = 1
    /\ n >= 1
    /\ scanCount + n <= MaxScans
    /\ scanCount' = scanCount + n
    /\ certScans' = Append(certScans,
                           [certs |-> data.certifications, left |-> n,
                            pc |-> "fetch", mounted |-> TRUE])
    /\ form' = [form EXCEPT !.scanning = TRUE, !.scanResult = Null]
    /\ lastOp' = Op("dropCerts", n)
    /\ UNCHANGED <<step, data, results, loading, frames, alerts, fetchCount,
                   resumeScans>>

\* the end of one loop iteration of the k-th invocation: setScanResult(shown),
\* setScanning(false), and then either the next iteration up to its await
\* (setScanning(true), setScanResult(null), fetch) or the return.  The state
\* setters of an unmounted form do nothing.
EndCertIteration(k, shown) ==
    LET f == certScans[k]
        more == f.left > 1
    IN /\ certScans' =
            IF more
            THEN [certScans EXCEPT ![k] = [@ EXCEPT !.left = @ - 1,
                                                    !.pc = "fetch"]]
            ELSE RemoveAt(certScans, k)
       /\ form' =
            IF ~f.mounted THEN form
            ELSE IF more
                 THEN [form EXCEPT !.scanning = TRUE, !.scanResult = Null]
                 ELSE [form EXCEPT !.scanning = FALSE, !.scanResult = shown]

\* await fetch(...) resolves, whatever the HTTP status; the invocation
\* suspends at await res.json().  Nothing reads the Response before that
\* promise settles, so its body is drawn where it is consumed.
CertFetchResolve(k) ==
    /\ k \in 1..Len(certScans)
    /\ certScans[k].pc = "fetch"
    /\ certScans' = [certScans EXCEPT ![k] = [@ EXCEPT !.pc = "json"]]
    /\ lastOp' = Op("certFetchResolve", k)
    /\ UNCHANGED <<step, data, results, loading, frames, form, alerts,
                   fetchCount, scanCount, resumeScans>>

\* await fetch(...) rejects: catch, setScanResult({ error: ... })
CertFetchReject(k) ==
    /\ k \in 1..Len(certScans)
    /\ certScans[k].pc = "fetch"
    /\ EndCertIteration(k, ScanFailed)
    /\ lastOp' = Op("certFetchReject", k)
    /\ UNCHANGED <<step, data, results, loading, frames, alerts, fetchCount, scanCount,
                   resumeScans>>

\* await res.json() resolves: setScanResult(result) and, on a positive
\* identification, onChange([...certs, record]), certs being the prop the
\* useCallback closure captured when the files were dropped
CertJsonResolve(k, result) ==
    /\ k \in 1..Len(certScans)
    /\ certScans[k].pc = "json"
    /\ data' = IF PositiveScan(result)
               THEN updateData(data, "certifications",
                               Append(certScans[k].certs, ScanRecord(result)))
               ELSE data
    /\ EndCertIteration(k, result)
    /\ lastOp' = Op("certJsonResolve", [k |-> k, result |-> result])
    /\ UNCHANGED <<step, results, loading, frames, alerts, fetchCount, scanCount,
                   resumeScans>>

\* await res.json() rejects (the body is not JSON): catch,
\* setScanResult({ error: ... })
CertJsonReject(k) ==
    /\ k \in 1..Len(certScans)
    /\ certScans[k].pc = "json"
    /\ EndCertIteration(k, ScanFailed)
    /\ lastOp' = Op("certJsonReject", k)
    /\ UNCHANGED <<step, data, results, loading, frames, alerts, fetchCount, scanCount,
                   resumeScans>>

\* the scan result panel: the headline and the error line it renders
ScanPanel(scanResult) ==
    IF scanResult = Null THEN [shown |-> FALSE]
    ELSE [shown |-> TRUE,
          headline |-> IF Identified(scanResult)
                       THEN "Certificate Identified!"
                       ELSE "Could not identify certificate",
          error |-> IF "error" \in DOMAIN scanResult
                    THEN scanResult.error ELSE ""]

-----------------------------------------------------------------------------
(* ResumeUpload: the resume dropzone *)

\* file.name of the files the user drops
FileNames == {<<"a">>, <<"b">>}

\* bodies POST /api/score/resume answers with: {total_words, suggestions?, ...}
ResumeScored == [total_words |-> 120, suggestions |-> << <<"x">>, <<"y", "z">> >>]

ResumeBare == [total_words |-> 50]

ResumeEmpty == [total_words |-> 0, suggestions |-> <<>>]

\* the JSON bodies res.json() of a resume scan can resolve to
ResumeBodies == {ResumeScored, ResumeBare, ResumeEmpty, ErrorBody}

\* result.total_words, 0 standing for undefined
TotalWords(result) ==
    IF "total_words" \in DOMAIN result THEN result.total_words ELSE 0

RECURSIVE JoinLines(_)
\* Array.prototype.join('\n')
JoinLines(lines) ==
    IF lines = <<>> THEN <<>>
    ELSE IF Len(lines) = 1 THEN lines[1]
    ELSE lines[1] \o <<"\n">> \o JoinLines(Tail(lines))

\* result.suggestions?.join('\n') || ''
Suggestions(result) ==
    IF "suggestions" \in DOMAIN result
    THEN OrStr(JoinLines(result.suggestions), <<>>)
    ELSE <<>>

\* `[Resume uploaded: ${file.name}]\n`
Acknowledgment(file) ==
    <<"[", "R", "e", "s", "u", "m", "e", " ", "u", "p", "l", "o", "a", "d",
      "e", "d", ":", " ">> \o file \o <<"]", "\n">>

\* mutant: the suggestions are left out of the marker
MarkerTextBare(file, result) ==
    IF TotalWords(result) # 0 THEN Acknowledgment(file) ELSE <<>>

\* the argument reader.onload passes to onChange
MarkerText(file, result) ==
    IF TotalWords(result) # 0
    THEN Acknowledgment(file) \o Suggestions(result)
    ELSE <<>>

\* onDrop up to await fetch: setUploading(true), setFileName(file.name).
\* useDropzone gets no disabled option.
DropResume(file) ==
    /\ step = ResumeStep
    /\ scanCount < MaxUploads
    /\ scanCount' = scanCount + 1
    /\ resumeScans' = Append(resumeScans,
                             [file |-> file, pc |-> "fetch", result |-> Null,
                              mounted |-> TRUE])
    /\ form' = [form EXCEPT !.uploading = TRUE, !.fileName = file]
    /\ lastOp' = Op("dropResume", file)
    /\ UNCHANGED <<step, data, results, loading, frames, alerts, fetchCount,
                   certScans>>

\* await fetch(...) resolves, whatever the HTTP status
ResumeFetchResolve(k) ==
    /\ k \in 1..Len(resumeScans)
    /\ resumeScans[k].pc = "fetch"
    /\ resumeScans' = [resumeScans EXCEPT ![k] = [@ EXCEPT !.pc = "json"]]
    /\ lastOp' = Op("resumeFetchResolve", k)
    /\ UNCHANGED <<step, data, results, loading, frames, form, alerts,
                   fetchCount, scanCount, certScans>>

\* catch (console.error) and setUploading(false); the invocation returns
ResumeCatch(k) ==
    /\ resumeScans' = RemoveAt(resumeScans, k)
    /\ form' = IF resumeScans[k].mounted
               THEN [form EXCEPT !.uploading = FALSE]
               ELSE form
    /\ UNCHANGED <<step, data, results, loading, frames, alerts, fetchCount, scanCount,
                   certScans>>

\* await fetch(...) rejects
ResumeFetchReject(k) ==
    /\ k \in 1..Len(resumeScans)
    /\ resumeScans[k].pc = "fetch"
    /\ ResumeCatch(k)
    /\ lastOp' = Op("resumeFetchReject", k)

\* await res.json() resolves: setPreview(result), reader.readAsText(file),
\* setUploading(false); the invocation returns with the reader still reading
ResumeJsonResolve(k, result) ==
    /\ k \in 1..Len(resumeScans)
    /\ resumeScans[k].pc = "json"
    /\ resumeScans' = [resumeScans EXCEPT ![k] = [@ EXCEPT !.pc = "read",
                                                           !.result = result]]
    /\ form' = IF resumeScans[k].mounted
               THEN [form EXCEPT !.uploading = FALSE, !.preview = result]
               ELSE form
    /\ lastOp' = Op("resumeJsonResolve", k)
    /\ UNCHANGED <<step, data, results, loading, frames, alerts, fetchCount, scanCount,
                   certScans>>

\* await res.json() rejects (the body is not JSON)
ResumeJsonReject(k) ==
    /\ k \in 1..Len(resumeScans)
    /\ resumeScans[k].pc = "json"
    /\ ResumeCatch(k)
    /\ lastOp' = Op("resumeJsonReject", k)

\* reader.onload: onChange(marker or '')
ReaderLoad(k) ==
    /\ k \in 1..Len(resumeScans)
    /\ resumeScans[k].pc = "read"
    /\ data' = updateData(data, "resumeText",
                          MarkerText(resumeScans[k].file, resumeScans[k].result))
    /\ resumeScans' = RemoveAt(resumeScans, k)
    /\ lastOp' = Op("readerLoad", k)
    /\ UNCHANGED <<step, results, loading, frames, form, alerts, fetchCount, scanCount,
                   certScans>>

\* what the upload zone renders: the acknowledgment once fileName is set,
\* else the busy text or the prompt.  No element of the component renders a
\* failure.
UploadZone(f) ==
    [text |-> IF f.fileName # <<>> THEN "uploaded"
              ELSE IF f.uploading THEN "Analyzing resume..."
              ELSE "Drop your resume PDF here or click to upload",
     error |-> ""]

-----------------------------------------------------------------------------
(* ProjectsForm *)

\* what the user can type into the title input
TitleInputs == {<<"\t">>, <<"p", " ">>}

\* what the user can type into the tech stack input
TechStackInputs == {<<"r", ",", " ", ",", " ", "n">>}

\* String.prototype.split(','): the segments between the commas
RECURSIVE Split(_)
Split(s) ==
    IF s = <<>> THEN << <<>> >>
    ELSE LET rest == Split(Tail(s)) IN
         IF Head(s) = ","
         THEN << <<>> >> \o rest
         ELSE << <<Head(s)>> \o Head(rest) >> \o Tail(rest)

\* the segments trimmed, the empty ones kept
TechStackUnfiltered(text) ==
    LET parts == Split(text)
    IN [k \in 1..Len(parts) |-> Trim(parts[k])]

\* form.techStack.split(',').map(s => s.trim()).filter(Boolean)
TechStack(text) ==
    LET parts == Split(text)
        trimmed == [k \in 1..Len(parts) |-> Trim(parts[k])]
    IN FilterValue(trimmed, <<>>)

\* input onChange={e => setForm({ ...form, [field]: e.target.value })}
SetProjectField(field, text) ==
    /\ step = 2
    /\ form' = [form EXCEPT !.form[field] = text]
    /\ lastOp' = Op("setProjectField", 0)
    /\ UNCHANGED <<certScans, resumeScans, scanCount>>
    /\ UNCHANGED <<step, data, results, loading, frames, alerts, fetchCount>>

\* the guard of addProject: if (!form.title.trim()) return
ProjectRejected(f) == Trim(f.title) = <<>>

\* addProject
AddProject ==
    /\ step = 2
    /\ Len(data.projects) < MaxProjects
    /\ IF ProjectRejected(form.form)
       THEN UNCHANGED <<data, form>>
       ELSE /\ data' = updateData(data, "projects",
                          Append(data.projects,
                                 [title |-> Trim(form.form.title),
                                  description |-> Trim(form.form.description),
                                  techStack |-> TechStack(form.form.techStack),
                                  githubUrl |-> Trim(form.form.githubUrl)]))
            /\ form' = [form EXCEPT !.form = InitForm(2).form]
    /\ lastOp' = Op("addProject", 0)
    /\ UNCHANGED <<certScans, resumeScans, scanCount>>
    /\ UNCHANGED <<step, results, loading, frames, alerts, fetchCount>>

\* removeProject's result: projects.filter((_, i) => i !== idx)
removeProject(projects, idx) == FilterIndex(projects, idx)

\* the trash button of the idx-th listed project
RemoveProject(idx) ==
    /\ step = 2
    /\ idx \in 0..(Len(data.projects) - 1)
    /\ data' = updateData(data, "projects", removeProject(data.projects, idx))
    /\ lastOp' = Op("removeProject", idx)
    /\ UNCHANGED <<certScans, resumeScans, scanCount>>
    /\ UNCHANGED <<step, results, loading, frames, form, alerts, fetchCount>>

-----------------------------------------------------------------------------
(* InternshipsForm *)

\* what the user can type into the company input
CompanyInputs == {<<" ", " ">>, <<"\t", "g">>}

\* input onChange={e => setForm({ ...form, company: e.target.value })}
SetCompany(text) ==
    /\ step = 3
    /\ form' = [form EXCEPT !.form.company = text]
    /\ lastOp' = Op("setCompany", 0)
    /\ UNCHANGED <<certScans, resumeScans, scanCount>>
    /\ UNCHANGED <<step, data, results, loading, frames, alerts, fetchCount>>

\* what the number input hands to the handler as e.target.value: the typed
\* text when it is a valid number, the empty string otherwise; min and max
\* do not restrict what can be typed
DurationInputs == {<<>>, <<"0">>, <<"7">>, <<"-", "5">>, <<"2", ".", "7">>}

Digits == <<"0", "1", "2", "3", "4", "5", "6", "7", "8", "9">>

IsDigit(c) == \E d \in 1..Len(Digits) : Digits[d] = c

DigitValue(c) == (CHOOSE d \in 1..Len(Digits) : Digits[d] = c) - 1

RECURSIVE ParseDigits(_, _)
\* the value of the longest prefix of decimal digits, appended to acc
ParseDigits(text, acc) ==
    IF text = <<>> \/ ~IsDigit(Head(text)) THEN acc
    ELSE ParseDigits(Tail(text), acc * 10 + DigitValue(Head(text)))

\* the result of parseInt where no digit can be parsed
NaN == [nan |-> TRUE, value |-> 0]

\* parseInt(text): an optional sign, then the longest prefix of digits
ParseInt(text) ==
    LET signed == text # <<>> /\ Head(text) \in {"-", "+"}
        body == IF signed THEN Tail(text) ELSE text
    IN IF body = <<>> \/ ~IsDigit(Head(body)) THEN NaN
       ELSE [nan |-> FALSE,
             value |-> IF signed /\ Head(text) = "-"
                       THEN 0 - ParseDigits(body, 0)
                       ELSE ParseDigits(body, 0)]

\* parseInt(...) || d: NaN and 0 are falsy
OrParsed(parsed, d) ==
    IF parsed.nan \/ parsed.value = 0 THEN d ELSE parsed.value

\* input type="number" onChange={e => setForm({ ...form,
\*   durationMonths: parseInt(e.target.value) || 1 })}
SetDuration(text) ==
    /\ step = 3
    /\ form' = [form EXCEPT !.form.durationMonths = OrParsed(ParseInt(text), 1)]
    /\ lastOp' = Op("setDuration", 0)
    /\ UNCHANGED <<certScans, resumeScans, scanCount>>
    /\ UNCHANGED <<step, data, results, loading, frames, alerts, fetchCount>>

\* checkbox onChange={e => setForm({ ...form, hasCertificate: e.target.checked })}
ToggleCertificate ==
    /\ step = 3
    /\ form' = [form EXCEPT !.form.hasCertificate = ~@]
    /\ lastOp' = Op("toggleCertificate", 0)
    /\ UNCHANGED <<certScans, resumeScans, scanCount>>
    /\ UNCHANGED <<step, data, results, loading, frames, alerts, fetchCount>>

\* the guard of addInternship: if (!form.company.trim()) return
InternshipRejected(f) == Trim(f.company) = <<>>

\* addInternship
AddInternship ==
    /\ step = 3
    /\ Len(data.internships) < MaxInternships
    /\ IF InternshipRejected(form.form)
       THEN UNCHANGED <<data, form>>
       ELSE /\ data' = updateData(data, "internships",
                          Append(data.internships,
                                 [form.form EXCEPT
                                    !.company = Trim(form.form.company),
                                    !.role = Trim(form.form.role),
                                    !.achievements = Trim(form.form.achievements)]))
            /\ form' = [form EXCEPT !.form = InitForm(3).form]
    /\ lastOp' = Op("addInternship", 0)
    /\ UNCHANGED <<certScans, resumeScans, scanCount>>
    /\ UNCHANGED <<step, results, loading, frames, alerts, fetchCount>>

\* removeInternship's result: internships.filter((_, i) => i !== idx)
removeInternship(internships, idx) == FilterIndex(internships, idx)

\* the trash button of the idx-th listed internship
RemoveInternship(idx) ==
    /\ step = 3
    /\ idx \in 0..(Len(data.internships) - 1)
    /\ data' = updateData(data, "internships",
                          removeInternship(data.internships, idx))
    /\ lastOp' = Op("removeInternship", idx)
    /\ UNCHANGED <<certScans, resumeScans, scanCount>>
    /\ UNCHANGED <<step, results, loading, frames, form, alerts, fetchCount>>

-----------------------------------------------------------------------------
(* Specification of the Wizard Controller with the skills and resume forms *)

Init ==
    /\ step = 0
    /\ data = InitData
    /\ results = Null
    /\ loading = FALSE
    /\ frames = <<>>
    /\ form = InitForm(0)
    /\ alerts = 0
    /\ fetchCount = 0
    /\ certScans = <<>>
    /\ resumeScans = <<>>
    /\ scanCount = 0
    /\ lastOp = Op("init", 0)

Next ==
    \/ Advance
    \/ Retreat
    \/ \E i \in 0..LastStep : Jump(i)
    \/ Submit
    \/ \E k \in 1..Len(frames) : \E r \in Responses : FetchResolve(k, r)
    \/ \E k \in 1..Len(frames) : FetchReject(k)
    \/ \E k \in 1..Len(frames) : JsonResolve(k)
    \/ \E k \in 1..Len(frames) : JsonReject(k)
    \/ \E s \in SkillCatalog : AddSkill(s)
    \/ \E s \in SkillCatalog : RemoveSkill(s)
    \/ ClearAll
    \/ \E t \in ResumeInputs : PasteResume(t)

Spec == Init /\ [][Next]_vars

-----------------------------------------------------------------------------
(* Specification of the step navigation with the three record-list forms *)

NextForms ==
    \/ Advance
    \/ Retreat
    \/ \E i \in 0..LastStep : Jump(i)
    \/ \E t \in NameInputs : SetName(t)
    \/ \E t \in IssuerInputs : SetIssuer(t)
    \/ AddCert
    \/ \E idx \in 0..(MaxCerts - 1) : RemoveCert(idx)
    \/ \E t \in TitleInputs : SetProjectField("title", t)
    \/ \E t \in TechStackInputs : SetProjectField("techStack", t)
    \/ AddProject
    \/ \E idx \in 0..(MaxProjects - 1) : RemoveProject(idx)
    \/ \E t \in CompanyInputs : SetCompany(t)
    \/ ToggleCertificate
    \/ AddInternship
    \/ \E idx \in 0..(MaxInternships - 1) : RemoveInternship(idx)

SpecForms == Init /\ [][NextForms]_vars

-----------------------------------------------------------------------------
(* Specification of the certificate dropzone with the manual certification *)
(* handlers and the step navigation                                        *)

NextCertScan ==
    \/ Advance
    \/ Retreat
    \/ \E idx \in 0..(MaxScans - 1) : RemoveCert(idx)
    \/ \E n \in 1..MaxScans : DropCerts(n)
    \/ \E k \in 1..Len(certScans) : CertFetchResolve(k)
    \/ \E k \in 1..Len(certScans) : CertFetchReject(k)
    \/ \E k \in 1..Len(certScans) : \E b \in ScanBodies : CertJsonResolve(k, b)
    \/ \E k \in 1..Len(certScans) : CertJsonReject(k)

SpecCertScan == Init /\ [][NextCertScan]_vars

-----------------------------------------------------------------------------
(* Specification of the Resume step: the textarea, the dropzone and the *)
(* step navigation                                                      *)

NextResume ==
    \/ Advance
    \/ Retreat
    \/ \E t \in ResumeInputs : PasteResume(t)
    \/ \E f \in FileNames : DropResume(f)
    \/ \E k \in 1..Len(resumeScans) : ResumeFetchResolve(k)
    \/ \E k \in 1..Len(resumeScans) : ResumeFetchReject(k)
    \/ \E k \in 1..Len(resumeScans) : \E b \in ResumeBodies : ResumeJsonResolve(k, b)
    \/ \E k \in 1..Len(resumeScans) : ResumeJsonReject(k)
    \/ \E k \in 1..Len(resumeScans) : ReaderLoad(k)

SpecResume == Init /\ [][NextResume]_vars

-----------------------------------------------------------------------------
(* Specification of the Internships step with the duration input *)

NextInternships ==
    \/ Advance
    \/ Retreat
    \/ \E t \in CompanyInputs : SetCompany(t)
    \/ \E t \in DurationInputs : SetDuration(t)
    \/ AddInternship
    \/ \E idx \in 0..(MaxInternships - 1) : RemoveInternship(idx)

SpecInternships == Init /\ [][NextInternships]_vars

-----------------------------------------------------------------------------
(* Specification of calculateScore over IntakeStates whose records carry all *)
(* of their optional fields or none of them                                  *)

FullCert == [name |-> <<"A", "W", "S">>, issuer |-> <<"x">>, year |-> 2020]

BareCert == [name |-> <<"a">>]

FullProject == [title |-> <<"t">>, description |-> <<"d">>,
                techStack |-> << <<"g", "o">> >>, githubUrl |-> <<"u">>]

BareProject == [title |-> <<"p">>]

FullInternship == [company |-> <<"g">>, role |-> <<"r">>, durationMonths |-> 6,
                   achievements |-> <<"w">>, hasCertificate |-> TRUE]

BareInternship == [company |-> <<"h">>]

PayloadInputs ==
    { [InitData EXCEPT !.skills = sk, !.certifications = cs, !.projects = ps,
                       !.internships = ins, !.resumeText = rt] :
        sk \in {<<>>, <<"Python", "SQL">>},
        cs \in {<<>>, <<BareCert>>, <<FullCert, BareCert>>},
        ps \in {<<>>, <<BareProject>>, <<BareProject, FullProject>>},
        ins \in {<<BareInternship>>, <<FullInternship, BareInternship>>},
        rt \in ResumeInputs }

InitPayload ==
    /\ step = ResumeStep
    /\ data \in PayloadInputs
    /\ results = Null
    /\ loading = FALSE
    /\ frames = <<>>
    /\ form = InitForm(ResumeStep)
    /\ alerts = 0
    /\ fetchCount = 0
    /\ certScans = <<>>
    /\ resumeScans = <<>>
    /\ scanCount = 0
    /\ lastOp = Op("init", 0)

NextPayload ==
    \/ Submit
    \/ \E k \in 1..Len(frames) : \E r \in Responses : FetchResolve(k, r)
    \/ \E k \in 1..Len(frames) : FetchReject(k)
    \/ \E k \in 1..Len(frames) : JsonResolve(k)
    \/ \E k \in 1..Len(frames) : JsonReject(k)

SpecPayload == InitPayload /\ [][NextPayload]_vars

-----------------------------------------------------------------------------
(* Specification of every path that creates a record, on one walk forward *)
(* through the steps: the add handlers of the three record-list forms and  *)
(* the certificate dropzone, whose scans may complete on a later step      *)

NextRecords ==
    \/ Advance
    \/ \E t \in NameInputs : SetName(t)
    \/ AddCert
    \/ \E t \in TitleInputs : SetProjectField("title", t)
    \/ AddProject
    \/ \E t \in CompanyInputs : SetCompany(t)
    \/ AddInternship
    \/ \E n \in 1..MaxScans : DropCerts(n)
    \/ \E k \in 1..Len(certScans) : CertFetchResolve(k)
    \/ \E k \in 1..Len(certScans) : \E b \in {CertMatched, CertNameless} : CertJsonResolve(k, b)

SpecRecords == Init /\ [][NextRecords]_vars

-----------------------------------------------------------------------------
(* Specification of IntakeState's writers side by side: both dropzones with *)
(* their pending calls, the navigation and the scoring request              *)

NextIntake ==
    \/ Advance
    \/ Retreat
    \/ \E i \in {0, LastStep} : Jump(i)
    \/ DropCerts(1)
    \/ \E k \in 1..Len(certScans) : CertFetchResolve(k)
    \/ \E k \in 1..Len(certScans) : CertJsonResolve(k, CertMatched)
    \/ DropResume(<<"a">>)
    \/ \E k \in 1..Len(resumeScans) : ResumeFetchResolve(k)
    \/ \E k \in 1..Len(resumeScans) : ResumeJsonResolve(k, ResumeScored)
    \/ \E k \in 1..Len(resumeScans) : ReaderLoad(k)
    \/ Submit
    \/ \E k \in 1..Len(frames) : \E r \in {x \in Responses : x.body \in {ReportA, NotJson}} : FetchResolve(k, r)
    \/ \E k \in 1..Len(frames) : JsonResolve(k)
    \/ \E k \in 1..Len(frames) : JsonReject(k)

SpecIntake == Init /\ [][NextIntake]_vars

-----------------------------------------------------------------------------
(* Specification of the Projects step: the title and tech stack inputs, the *)
(* add and remove handlers and the step navigation                          *)

\* what the user can type into the tech stack input: segments with blanks
\* around and inside, empty and blank segments, a trailing comma
StackInputs ==
    {<<"r", ",", " ", ",", " ", "n">>,
     <<" ", ",", "\t">>,
     <<" ", "a", " ", "b", ",">>}

NextProjects ==
    \/ Advance
    \/ Retreat
    \/ \E t \in TitleInputs : SetProjectField("title", t)
    \/ \E t \in StackInputs : SetProjectField("techStack", t)
    \/ AddProject
    \/ \E idx \in 0..(MaxProjects - 1) : RemoveProject(idx)

SpecProjects == Init /\ [][NextProjects]_vars

-----------------------------------------------------------------------------
(* Score colours of the results dashboard and of the resume preview, and a *)
(* specification of the views that show a stored report's score            *)

\* the largest score drawn; scores are drawn from -1 up to it
MaxScore == 101

\* ResultsDashboard module: getColor
getColor(s) ==
    IF s >= 80 THEN "#10b981"
    ELSE IF s >= 60 THEN "#eab308"
    ELSE IF s >= 40 THEN "#f97316"
    ELSE "#ef4444"

\* mutant: the thresholds fall in the lower band
getScoreColorAbove(s) ==
    IF s > 80 THEN "#10b981"
    ELSE IF s > 60 THEN "#eab308"
    ELSE IF s > 40 THEN "#f97316"
    ELSE "#ef4444"

\* ResumeUpload: getScoreColor
getScoreColor(s) ==
    IF s >= 80 THEN "#10b981"
    ELSE IF s >= 60 THEN "#eab308"
    ELSE IF s >= 40 THEN "#f97316"
    ELSE "#ef4444"

\* the reports whose score the views colour
ScoredReports ==
    { [final |-> [final_score |-> s, overall_grade |-> "D"],
       components |-> "components-A",
       suggestions |-> "suggestions-A"] : s \in (0 - 1)..MaxScore }

\* the Results step showing a stored report
InitScored ==
    /\ step = LastStep
    /\ data = InitData
    /\ results \in ScoredReports
    /\ loading = FALSE
    /\ frames = <<>>
    /\ form = InitForm(LastStep)
    /\ alerts = 0
    /\ fetchCount = 0
    /\ certScans = <<>>
    /\ resumeScans = <<>>
    /\ scanCount = 0
    /\ lastOp = Op("init", 0)

NextScored ==
    \/ Advance
    \/ Retreat
    \/ \E i \in 0..LastStep : Jump(i)

SpecScored == InitScored /\ [][NextScored]_vars

-----------------------------------------------------------------------------
(* Scoring requests: how a calculateScore invocation ended *)

\* the frame's request failed: a transport error, an HTTP error status, or a
\* body that is not JSON
RequestFailed(f) ==
    \/ f.pc = "fetch"
    \/ ~Ok(f.res)
    \/ f.res.body = NotJson

\* the frame's request succeeded: a 2xx answer with a JSON body
RequestSucceeded(f) ==
    /\ f.pc = "json"
    /\ Ok(f.res)
    /\ f.res.body # NotJson

\* this step ends the k-th invocation of calculateScore
Completes(k) == k \in 1..Len(frames) /\ frames' = RemoveAt(frames, k)

\* new is old without the entry at the 0-based index idx, the others in order
RemovedAt(old, new, idx) ==
    /\ Len(new) = Len(old) - 1
    /\ \A j \in 1..Len(new) : new[j] = IF j <= idx THEN old[j] ELSE old[j + 1]

\* no element occurs twice in s
NoDuplicates(s) == \A j, k \in 1..Len(s) : s[j] = s[k] => j = k

-----------------------------------------------------------------------------
(* Properties *)

\* C1: when a scoring request fails, handling the failure does not move the
\* cursor, the cursor is not at step 5 afterwards, and the user has been
\* notified by one more alert.
C1_FailedRequestKeepsCursor ==
    [][\A k \in 1..Len(frames) :
         (Completes(k) /\ RequestFailed(frames[k]))
            => (step' = step /\ step' # LastStep /\ alerts' = alerts + 1)]_vars

\* C2: a failed scoring request changes no field of IntakeState and stores no
\* report: the stored report is the one held before.
C2_FailedRequestStoresNoReport ==
    [][\A k \in 1..Len(frames) :
         (Completes(k) /\ RequestFailed(frames[k]))
            => (data' = data /\ results' = results)]_vars

\* C3: at most one scoring request is in flight in every reachable state, and
\* while one is in flight the loading flag is set (the submit control is
\* disabled).
C3_AtMostOneInFlight ==
    /\ Len(frames) <= 1
    /\ (Len(frames) = 1 => loading)

\* C3 witness: a request is in flight and the user has navigated away from
\* step 4 and back to it.
C3_Witness ==
    /\ Len(frames) = 1
    /\ step = ResumeStep
    /\ lastOp.op = "advance"

\* C4: when a scoring request succeeds the cursor becomes 5 and the stored
\* report is exactly the response body, whatever report was stored before.
C4_SuccessStoresReport ==
    [][\A k \in 1..Len(frames) :
         (Completes(k) /\ RequestSucceeded(frames[k]))
            => (step' = LastStep /\ results' = frames[k].res.body)]_vars

\* C4 witness: the second request of the session succeeded with ReportB, which
\* has fewer fields than ReportA.
C4_Witness ==
    /\ lastOp.op = "jsonResolve"
    /\ fetchCount = 2
    /\ step = LastStep
    /\ results = ReportB

\* C5: a scoring request is started only when the cursor is 4 and no request
\* is in flight.
C5_SubmitOnlyFromResume ==
    [][fetchCount' # fetchCount
         => (step = ResumeStep /\ frames = <<>> /\ Len(frames') = 1)]_vars

\* C5 witness: a second request was started.
C5_Witness ==
    /\ lastOp.op = "submit"
    /\ fetchCount = 2
    /\ Len(frames) = 1

\* C6: jump(i) with i > cursor leaves the cursor unchanged; jump(i) with
\* i <= cursor sets the cursor to i.
C6_JumpNeverSkipsAhead ==
    [][lastOp'.op = "jump"
         => step' = IF lastOp'.arg <= step THEN lastOp'.arg ELSE step]_vars

\* C6 witness: the user clicked a stepper entry ahead of the cursor.
C6_Witness ==
    /\ lastOp.op = "jump"
    /\ lastOp.arg > step

\* C7: advance moves the cursor from c to c+1 and happens only below 5;
\* retreat moves it to max(0, c-1); the cursor is in 0..5 in every state.
C7_CursorInRange ==
    /\ [](step \in 0..LastStep)
    /\ [][lastOp'.op = "advance" => (step < LastStep /\ step' = step + 1)]_vars
    /\ [][lastOp'.op = "retreat" => step' = Max(0, step - 1)]_vars

\* C7 witness: advance has moved the cursor to the last form step.
C7_Witness ==
    /\ lastOp.op = "advance"
    /\ step = ResumeStep

\* C8: a manual add whose required field (name, title, company) is empty after
\* trimming changes neither the lists nor the draft inputs.
C8_BlankAddIsNoOp ==
    [][(\/ lastOp'.op = "addCert" /\ Trim(form.name) = <<>>
        \/ lastOp'.op = "addProject" /\ Trim(form.form.title) = <<>>
        \/ lastOp'.op = "addInternship" /\ Trim(form.form.company) = <<>>)
         => (data' = data /\ form' = form)]_vars

\* C8 witness: addCert ran on a whitespace-only name; the draft is still there
\* and the list still holds its records.
C8_Witness ==
    /\ lastOp.op = "addCert"
    /\ form.name = <<" ", "\t">>
    /\ form.issuer # <<>>
    /\ Len(data.certifications) = 2

\* C9: remove(i) on a list of length n yields the n-1 other elements in their
\* original order, for certifications, projects and internships.
C9_RemoveByIndex ==
    /\ [][lastOp'.op = "removeCert"
            => RemovedAt(data.certifications, data'.certifications,
                         lastOp'.arg)]_vars
    /\ [][lastOp'.op = "removeProject"
            => RemovedAt(data.projects, data'.projects, lastOp'.arg)]_vars
    /\ [][lastOp'.op = "removeInternship"
            => RemovedAt(data.internships, data'.internships,
                         lastOp'.arg)]_vars

\* C9 witness: the middle one of three certifications was removed and the two
\* left are equal records.
C9_Witness ==
    /\ lastOp.op = "removeCert"
    /\ lastOp.arg = 1
    /\ Len(data.certifications) = 2
    /\ data.certifications[1] = data.certifications[2]

\* C10: the skills list never holds a name twice; adding a present skill
\* leaves it unchanged, adding a new one appends it; Clear All empties it.
C10_SkillsAreASet ==
    /\ [](NoDuplicates(data.skills))
    /\ [][lastOp'.op = "addSkill"
            => data'.skills = IF Includes(data.skills, lastOp'.arg)
                              THEN data.skills
                              ELSE Append(data.skills, lastOp'.arg)]_vars
    /\ [][lastOp'.op = "clearAll" => data'.skills = <<>>]_vars

\* C10 witness: the last add was of the skill at the head of a two-element
\* list, so it was an add of a skill already present.
C10_Witness ==
    /\ lastOp.op = "addSkill"
    /\ Len(data.skills) = 2
    /\ lastOp.arg = data.skills[1]

-----------------------------------------------------------------------------
(* Certificate scans: vocabulary of the claims *)

\* the onDrop invocations of the mounted form that await a response
ScansInFlight == {k \in 1..Len(certScans) : certScans[k].mounted}

\* the step handled the JSON body of a scan response
ScanHandled == lastOp'.op = "certJsonResolve"

\* the record the specification describes for a positive scan body
ExpectedScanRecord(body) ==
    [name |-> body.cert_name,
     issuer |-> IF "match" \in DOMAIN body THEN body.match.tier_label ELSE <<>>,
     year |-> DefaultYear]

\* C11: a form instance has at most one certificate scan in flight at any
\* time; a drop made while a scan is outstanding starts no second request.
C11_OneScanInFlight == Cardinality(ScansInFlight) <= 1

\* C12: a scan response with identified = true and a cert_name, handled for a
\* certifications list that was empty when the file was dropped and is empty
\* still, leaves exactly one record {name: cert_name, issuer: match.tier_label
\* or '' without a match, year: 2024}.
C12_FirstScanYieldsOneRecord ==
    [][(/\ ScanHandled
        /\ PositiveScan(lastOp'.arg.result)
        /\ certScans[lastOp'.arg.k].certs = <<>>
        /\ data.certifications = <<>>)
       => data'.certifications = <<ExpectedScanRecord(lastOp'.arg.result)>>]_vars

\* C12 witness: a positive scan without a match was handled and the list
\* holds its record, with the empty issuer, and nothing else.
C12_Witness ==
    /\ lastOp.op = "certJsonResolve"
    /\ lastOp.arg.result = CertUnranked
    /\ data.certifications =
         <<[name |-> CertUnranked.cert_name, issuer |-> <<>>, year |-> DefaultYear]>>

\* C13: a positively identified scan appends its record to the list as it
\* stands when the response is handled; nothing added or removed since the
\* drop is lost or resurrected.
C13_ScanAppendsToCurrentList ==
    [][(ScanHandled /\ PositiveScan(lastOp'.arg.result))
       => data'.certifications =
            Append(data.certifications, ExpectedScanRecord(lastOp'.arg.result))]_vars

\* C16: a scan response that is not a positive identification leaves the list
\* unchanged and, once the drop is through, the panel of the mounted form
\* shows 'Could not identify certificate' without the error line of a
\* transport failure.
C16_NegativeScanIsInformational ==
    [][(/\ ScanHandled
        /\ ~PositiveScan(lastOp'.arg.result)
        /\ certScans[lastOp'.arg.k].mounted
        /\ certScans[lastOp'.arg.k].left = 1)
       => /\ data'.certifications = data.certifications
          /\ ScanPanel(form'.scanResult) =
               [shown |-> TRUE, headline |-> "Could not identify certificate",
                error |-> ""]]_vars

-----------------------------------------------------------------------------
(* Resume scans: vocabulary of the claims *)

\* the step ended a resume scan in the catch block
ResumeScanFailed == lastOp'.op \in {"resumeFetchReject", "resumeJsonReject"}

\* C14: a transport failure of a scan is absorbed by the form: IntakeState
\* is unchanged, nothing reaches the parent, and the mounted form shows an
\* inline error.
C14_FailureShowsInlineError ==
    [][(ResumeScanFailed /\ resumeScans[lastOp'.arg].mounted)
       => /\ data' = data
          /\ alerts' = alerts
          /\ UploadZone(form').error # ""]_vars

\* C15: a busy flag is not cleared while the request it guards is in flight
\* or has updates pending: the step that clears uploading ends an invocation
\* of onDrop and leaves nothing of it behind.
C15_FlagClearedWhenDone ==
    [][(/\ form.component = "ResumeUpload" /\ form.uploading
        /\ form'.component = "ResumeUpload" /\ ~form'.uploading)
       => Len(resumeScans') < Len(resumeScans)]_vars

\* C17: when a resume scan returns a non-zero word count, ResumeText becomes
\* the acknowledgment for that file followed by the suggestions joined in
\* order by newlines, whatever the text was before.
C17_ScoredResumeSetsMarker ==
    [][(lastOp'.op = "readerLoad"
        /\ TotalWords(resumeScans[lastOp'.arg].result) # 0)
       => data'.resumeText =
            Acknowledgment(resumeScans[lastOp'.arg].file)
            \o (IF "suggestions" \in DOMAIN resumeScans[lastOp'.arg].result
                THEN JoinLines(resumeScans[lastOp'.arg].result.suggestions)
                ELSE <<>>)]_vars

\* C17 witness: the reader loaded for a scored resume of file "a" and
\* ResumeText is its acknowledgment followed by both suggestions.
C17_Witness ==
    /\ lastOp.op = "readerLoad"
    /\ data.resumeText =
         Acknowledgment(<<"a">>) \o <<"x", "\n", "y", "z">>

\* C18: a resume scan that returns no non-zero word count, or fails, leaves
\* ResumeText as it was.
C18_UnscoredResumeKeepsText ==
    [][(\/ ResumeScanFailed
        \/ /\ lastOp'.op = "readerLoad"
           /\ TotalWords(resumeScans[lastOp'.arg].result) = 0)
       => data'.resumeText = data.resumeText]_vars

-----------------------------------------------------------------------------
(* Internship durations *)

\* C20: every internship in IntakeState has durationMonths of at least 1,
\* whatever was typed into the duration input, and so has every
\* duration_months of the payload built from it.
C20_DurationAtLeastOne ==
    \A k \in 1..Len(data.internships) :
        /\ data.internships[k].durationMonths >= 1
        /\ Payload(data).internships[k].duration_months >= 1

-----------------------------------------------------------------------------
(* The scoring payload *)

\* the field f of record r, or d when r has no such field
Default(r, f, d) == IF f \in DOMAIN r THEN r[f] ELSE d

\* the projection of IntakeState d the specification describes, with
\* duration as the default of an absent durationMonths
Projection(d, duration) ==
    [skills |-> d.skills,
     certifications |->
        [k \in 1..Len(d.certifications) |->
            [name |-> d.certifications[k].name,
             issuer |-> Default(d.certifications[k], "issuer", <<>>),
             year |-> Default(d.certifications[k], "year", DefaultYear)]],
     projects |->
        [k \in 1..Len(d.projects) |->
            [title |-> d.projects[k].title,
             description |-> Default(d.projects[k], "description", <<>>),
             tech_stack |-> Default(d.projects[k], "techStack", <<>>),
             github_url |-> Default(d.projects[k], "githubUrl", <<>>)]],
     internships |->
        [k \in 1..Len(d.internships) |->
            [company |-> d.internships[k].company,
             role |-> Default(d.internships[k], "role", <<>>),
             duration_months |-> Default(d.internships[k], "durationMonths", duration),
             achievements |-> Default(d.internships[k], "achievements", <<>>),
             has_certificate |-> Default(d.internships[k], "hasCertificate", FALSE)]],
     resume_text |-> d.resumeText]

\* the payload of the invocation of calculateScore that started last
SentPayload == frames[Len(frames)].payload

-----------------------------------------------------------------------------
(* Required fields *)

-----------------------------------------------------------------------------
(* Writers of IntakeState *)

\* the field of IntakeState the handler named op replaces, "none" for the
\* handlers that are not a form's change
OwnField(op) ==
    CASE op \in {"addSkill", "removeSkill", "clearAll"} -> "skills"
      [] op \in {"addCert", "removeCert", "certJsonResolve"} -> "certifications"
      [] op \in {"addProject", "removeProject"} -> "projects"
      [] op \in {"addInternship", "removeInternship"} -> "internships"
      [] op \in {"pasteResume", "readerLoad"} -> "resumeText"
      [] OTHER -> "none"

\* C22: a step changes no field of IntakeState but the field of the form
\* whose change it is; navigation and the start and completion of a scoring
\* request change none.
C22_OnlyOwnFieldChanges ==
    [][/\ DOMAIN data' = DOMAIN data
       /\ \A key \in DOMAIN data :
            data'[key] # data[key] => key = OwnField(lastOp'.op)]_vars

\* C22 witness: the resume scan's update was applied on the Resume step after
\* a certificate scan's, and both fields hold what their form wrote.
C22_Witness ==
    /\ lastOp.op = "readerLoad"
    /\ data.certifications # <<>>
    /\ data.resumeText # <<>>

\* the positions at which a segment of a comma-separated text starts: one
\* before its first character
SegmentStarts(text) == {0} \cup {k \in 1..Len(text) : text[k] = ","}

\* the position just after the segment that starts at c
SegmentEnd(text, c) ==
    LET later == {k \in (c + 1)..Len(text) : text[k] = ","}
    IN IF later = {} THEN Len(text) + 1
       ELSE CHOOSE k \in later : \A j \in later : k <= j

\* the positions of the non-blank characters of the segment that starts at c
Inked(text, c) ==
    {k \in (c + 1)..(SegmentEnd(text, c) - 1) : ~IsSpace(text[k])}

\* the segment that starts at c, from its first non-blank character to its
\* last
Core(text, c) ==
    LET ink == Inked(text, c)
    IN SubSeq(text, CHOOSE k \in ink : \A j \in ink : k <= j,
                    CHOOSE k \in ink : \A j \in ink : k >= j)

\* the non-blank segments of a comma-separated text, each without the blanks
\* around it, in the order of the text
NonBlankSegments(text) ==
    LET starts == {c \in SegmentStarts(text) : Inked(text, c) # {}}
        nth(n) == CHOOSE c \in starts :
                      Cardinality({d \in starts : d < c}) = n - 1
    IN [n \in 1..Cardinality(starts) |-> Core(text, nth(n))]

\* C23: the tech stack stored by an accepted add is the sequence of the
\* non-blank segments of the typed text, each trimmed, in the order typed; no
\* stored entry is empty or starts or ends with a blank, and a text with no
\* non-blank segment is stored as the empty sequence.
C23_TechStackNormalised ==
    [][lastOp'.op = "addProject" /\ data'.projects # data.projects =>
         LET typed == form.form.techStack
             stored == data'.projects[Len(data'.projects)].techStack
         IN /\ stored = NonBlankSegments(typed)
            /\ \A k \in 1..Len(stored) :
                 /\ stored[k] # <<>>
                 /\ ~IsSpace(stored[k][1])
                 /\ ~IsSpace(stored[k][Len(stored[k])])
            /\ (\A k \in 1..Len(typed) : IsSpace(typed[k]) \/ typed[k] = ",")
                 => stored = <<>>]_vars

C23_Witness ==
    /\ lastOp.op = "addProject"
    /\ Len(data.projects) = 2
    /\ data.projects[1].techStack = << <<"r">>, <<"n">> >>
    /\ data.projects[2].techStack = <<>>

\* C24: the dashboard's and the resume preview's colour functions agree on
\* every score: the best colour from 80 up, the second from 60 to 79, the
\* third from 40 to 59, the worst below 40.
C24_ColorsAgree ==
    LET s == results.final.final_score
        band == CASE s >= 80 -> "#10b981"
                  [] s >= 60 /\ s <= 79 -> "#eab308"
                  [] s >= 40 /\ s <= 59 -> "#f97316"
                  [] s < 40 -> "#ef4444"
    IN /\ getColor(s) = getScoreColor(s)
       /\ getColor(s) = band
       /\ getScoreColor(s) = band

C24_Witness ==
    /\ lastOp = Op("jump", ResumeStep)
    /\ step = ResumeStep
    /\ results.final.final_score = 80

\* C25: the cursor is at 5 only with a report stored, and it gets to 5 only in
\* the step that completes a scoring request and stores that request's
\* answer; no advance, retreat, jump or submit puts it there.
C25_ResultsOnlyWithReport ==
    [][/\ step' = LastStep => results' # Null
       /\ (step' = LastStep /\ step # LastStep) =>
             \E k \in 1..Len(frames) :
                 /\ Completes(k)
                 /\ frames[k].pc = "json"
                 /\ results' = frames[k].res.body]_vars

\* C25 witness: the completion of the first request of the session opened the
\* Results step on a stored report.
C25_Witness ==
    /\ lastOp.op = "jsonResolve"
    /\ step = LastStep
    /\ fetchCount = 1
    /\ results = ReportA
    /\ data.skills # <<>>

\* C26: a request's payload is IntakeState as it is when submit is triggered,
\* and when the completion of a request puts the cursor at 5 the report it
\* stores answers the IntakeState held then.
C26_ReportMatchesIntake ==
    [][/\ lastOp'.op = "submit" =>
             frames'[Len(frames')].payload = Payload(data)
       /\ \A k \in 1..Len(frames) :
             (Completes(k) /\ step' = LastStep) =>
                 frames[k].payload = Payload(data')]_vars

====
